---- MODULE Spec2Model ----
(***************************************************************************)
(* Authentication, user and item management of andamios-api:               *)
(*   core/config.py    the settings and their validation at import         *)
(*   routers/auth.py   register, login, logout, me, get_current_user       *)
(*   routers/users.py  protected user CRUD                                 *)
(*   routers/items.py  protected item CRUD                                 *)
(*   core/exceptions.py  mapping of HTTPException to error responses       *)
(*                                                                         *)
(* Text is a sequence of tokens (characters for an email address, words    *)
(* for a message), so that lower(), substring tests and the EmailStr       *)
(* normalisation are computed and not assumed.  Time is counted in ticks   *)
(* of 1/TicksPerSecond second, as datetime.utcnow() is finer than the      *)
(* whole seconds a token's exp claim is kept in.                           *)
(***************************************************************************)
EXTENDS Integers, Sequences, FiniteSets, TLC

VARIABLES boot, settings, users, nextId, items, nextItemId, now, inflight, held, last

vars == <<boot, settings, users, nextId, items, nextItemId, now, inflight, held, last>>

-----------------------------------------------------------------------------
(* Bounds *)

MaxId == 2
BootTime == 2
MaxClock == 126
TicksPerSecond == 2
MaxItemId == 1

(* Program constants *)

SecondsPerMinute == 60
MinKeyLength == 16
HTTP_400_BAD_REQUEST == 400
HTTP_401_UNAUTHORIZED == 401
HTTP_500_INTERNAL_SERVER_ERROR == 500

-----------------------------------------------------------------------------
(* Input domains *)

Locals == {"a", "A", "b"}
RawEmails == {<<l, "@", "x">> : l \in Locals} \cup {<<"a", "@", "X">>}
Passwords == {"pw1", "pw2"}
Salts == {"s1"}
Keys == {"signing-key-of-the-service", "signing-key-of-another"}
Procs == {"c1", "c2"}

-----------------------------------------------------------------------------
(* Text *)

\* str.lower() on one token
LowerTok(w) ==
    CASE w = "A" -> "a"
      [] w = "B" -> "b"
      [] w = "X" -> "x"
      [] w = "Could" -> "could"
      [] w = "Incorrect" -> "incorrect"
      [] w = "Email" -> "email"
      [] w = "User" -> "user"
      [] w = "No" -> "no"
      [] w = "Registration" -> "registration"
      [] w = "Internal" -> "internal"
      [] w = "UNIQUE" -> "unique"
      [] w = "Constraint" -> "constraint"
      [] w = "Error" -> "error"
      [] w = "Duplicate" -> "duplicate"
      [] OTHER -> w

\* str.lower()
lower(s) == [i \in DOMAIN s |-> LowerTok(s[i])]

\* Python's `sub in s`
Contains(sub, s) ==
    \E i \in 0..(Len(s) - Len(sub)) : SubSeq(s, i + 1, i + Len(sub)) = sub

\* pydantic EmailStr: the local part is kept, the domain is lower-cased
EmailStr(v) ==
    LET at == CHOOSE i \in DOMAIN v : v[i] = "@"
    IN  [i \in DOMAIN v |-> IF i > at THEN LowerTok(v[i]) ELSE v[i]]

Emails == {EmailStr(v) : v \in RawEmails}

\* str.strip() on the text of an item field, whose blanks are the tokens " "
RECURSIVE lstrip(_)
lstrip(s) == IF s # <<>> /\ Head(s) = " " THEN lstrip(Tail(s)) ELSE s

RECURSIVE rstrip(_)
rstrip(s) ==
    IF s # <<>> /\ s[Len(s)] = " " THEN rstrip(SubSeq(s, 1, Len(s) - 1)) ELSE s

strip(s) == rstrip(lstrip(s))

-----------------------------------------------------------------------------
(* Optional values: <<>> is None, <<v>> is v *)

None == <<>>
Some(v) == <<v>>

-----------------------------------------------------------------------------
(* core/config.py *)

\* the keys both validations of the signing key name
PlaceholderKeys ==
    {"dev-secret-key-change-in-production", "your-production-secret-key-here"}

\* Field(default=...) of jwt_secret_key
DefaultKey == "dev-secret-key-change-in-production"

\* the values ENVIRONMENT, JWT_SECRET_KEY, API_DEBUG, CORS_ALLOW_ORIGINS and
\* DATABASE_URL can give the fields of Settings
Environments == {"development", "test", "production"}
SecretKeys ==
    PlaceholderKeys \cup Keys \cup {"", "short", "fifteen-chars-k", "sixteen-chars-ke"}
CorsOrigins == {<<"http://", "localhost", ":3000">>, <<"https://", "app.example.com">>}
DatabaseUrls == {"", "sqlite:///andamios_dev.db"}

\* Settings(): the fields as the environment gives them
Settings ==
    [environment : Environments,
     jwt_secret_key : SecretKeys,
     jwt_access_token_expire_minutes : {1},
     api_debug : BOOLEAN,
     cors_allow_origins : CorsOrigins,
     database_url : DatabaseUrls]

\* @validator('jwt_secret_key'): the ValueError it raises, if any
validate_jwt_secret_key(v, values) ==
    IF values.environment = "production" /\ v \in PlaceholderKeys
    THEN {"JWT secret key must be changed in production environment"}
    ELSE {}

\* @validator('database_url'): the ValueError it raises, if any
validate_database_url(v, values) ==
    IF v = "" THEN {"Database URL is required"} ELSE {}

\* validate_required_config checking the length of the key in production only
ValidateRequiredConfigLax(s) ==
    (IF s.environment = "production"
     THEN (IF s.jwt_secret_key \in PlaceholderKeys
           THEN {"JWT_SECRET_KEY must be set to a secure value in production"} ELSE {})
          \cup (IF s.api_debug THEN {"API_DEBUG should be false in production"} ELSE {})
          \cup (IF Contains(<<"localhost">>, s.cors_allow_origins)
                THEN {"CORS_ALLOW_ORIGINS should not include localhost in production"}
                ELSE {})
          \cup (IF s.jwt_secret_key = "" \/ Len(s.jwt_secret_key) < MinKeyLength
                THEN {"JWT_SECRET_KEY must be at least 16 characters long"} ELSE {})
     ELSE {})
    \cup (IF s.database_url = "" THEN {"DATABASE_URL is required"} ELSE {})

\* validate_required_config: the errors it collects, a ValueError if there are any
validate_required_config(s) ==
    (IF s.environment = "production"
     THEN (IF s.jwt_secret_key \in PlaceholderKeys
           THEN {"JWT_SECRET_KEY must be set to a secure value in production"} ELSE {})
          \cup (IF s.api_debug THEN {"API_DEBUG should be false in production"} ELSE {})
          \cup (IF Contains(<<"localhost">>, s.cors_allow_origins)
                THEN {"CORS_ALLOW_ORIGINS should not include localhost in production"}
                ELSE {})
     ELSE {})
    \cup (IF s.database_url = "" THEN {"DATABASE_URL is required"} ELSE {})
    \cup (IF s.jwt_secret_key = "" \/ Len(s.jwt_secret_key) < MinKeyLength
          THEN {"JWT_SECRET_KEY must be at least 16 characters long"} ELSE {})

\* the position of the process: importing core.config, configured, serving, failed
Boot(phase, errors) == [phase |-> phase, errors |-> errors]

\* the import of core.config that accepts every configuration
ImportConfigUnchecked ==
    /\ boot.phase = "import"
    /\ boot' = Boot("configured", {})
    /\ UNCHANGED <<settings, users, nextId, items, nextItemId, now, inflight, held, last>>

\* the import of core.config: get_settings(), then validate_required_config
ImportConfig ==
    /\ boot.phase = "import"
    /\ LET raised == validate_jwt_secret_key(settings.jwt_secret_key, settings)
                     \cup validate_database_url(settings.database_url, settings)
       IN  boot' = IF raised # {}
                   THEN Boot("failed", raised)
                   ELSE IF validate_required_config(settings) # {}
                   THEN Boot("failed", validate_required_config(settings))
                   ELSE Boot("configured", {})
    /\ UNCHANGED <<settings, users, nextId, items, nextItemId, now, inflight, held, last>>

\* lifespan: the tables are created and the application starts to serve
Lifespan ==
    /\ boot.phase = "configured"
    /\ boot' = Boot("serving", {})
    /\ UNCHANGED <<settings, users, nextId, items, nextItemId, now, inflight, held, last>>

-----------------------------------------------------------------------------
(* passlib CryptContext(schemes=["bcrypt"]) *)

\* the digest of a password under a salt
Digest(salt, password) == <<salt, password>>

\* pwd_context.hash: the salt is drawn by the caller of this operator
pwd_context_hash(password, salt) ==
    [salt |-> salt, digest |-> Digest(salt, password)]

\* pwd_context.verify: recompute under the stored salt and compare
pwd_context_verify(password, password_hash) ==
    Digest(password_hash.salt, password) = password_hash.digest

PasswordHashes == {pwd_context_hash(p, s) : p \in Passwords, s \in Salts}

\* a stored string that is no bcrypt hash
MalformedHash == [salt |-> "", digest |-> <<"not-a-hash">>]

\* CryptContext(schemes=["bcrypt"]) identifies a hash by its bcrypt prefix and salt
pwd_context_identify(password_hash) == password_hash.salt \in Salts

\* the text of passlib's UnknownHashError, which verify raises for a hash it
\* cannot identify
UnknownHashError == <<"hash", "could", "not", "be", "identified">>

-----------------------------------------------------------------------------
(* python-jose *)

\* timedelta(minutes=m), in ticks
timedelta(minutes) == minutes * SecondsPerMinute * TicksPerSecond

\* timegm(d.utctimetuple()): whole seconds, the fraction is dropped
timegm(d) == d \div TicksPerSecond

\* the HMAC of the claims under a key
Signature(claims, key) == <<key, claims>>

\* jwt.encode
jwt_encode(claims, key) ==
    [wellformed |-> TRUE, claims |-> claims, signature |-> Signature(claims, key)]

\* a string that is not a JWT
GarbageToken ==
    [wellformed |-> FALSE, claims |-> [sub |-> None, exp |-> 0],
     signature |-> Signature([sub |-> None, exp |-> 0], "none")]

\* jwt.decode without the exp check
JwtDecodeNoExpiry(token, key, utcnow) ==
    IF ~token.wellformed
    THEN [raised |-> "JWTError", claims |-> token.claims]
    ELSE IF token.signature # Signature(token.claims, key)
    THEN [raised |-> "JWTError", claims |-> token.claims]
    ELSE [raised |-> "", claims |-> token.claims]

\* jwt.decode without the signature check
JwtDecodeNoSignature(token, key, utcnow) ==
    IF ~token.wellformed
    THEN [raised |-> "JWTError", claims |-> token.claims]
    ELSE IF token.claims.exp < timegm(utcnow)
    THEN [raised |-> "ExpiredSignatureError", claims |-> token.claims]
    ELSE [raised |-> "", claims |-> token.claims]

\* jwt.decode: [raised |-> the JWTError subclass or "", claims |-> payload]
jwt_decode(token, key, utcnow) ==
    IF ~token.wellformed
    THEN [raised |-> "JWTError", claims |-> token.claims]
    ELSE IF token.signature # Signature(token.claims, key)
    THEN [raised |-> "JWTError", claims |-> token.claims]
    ELSE IF token.claims.exp < timegm(utcnow)
    THEN [raised |-> "ExpiredSignatureError", claims |-> token.claims]
    ELSE [raised |-> "", claims |-> token.claims]

\* except JWTError: ExpiredSignatureError and JWTClaimsError derive from it
IsJWTError(raised) == raised \in {"JWTError", "ExpiredSignatureError", "JWTClaimsError"}

\* create_access_token with the expiry taken in minutes where seconds are meant
CreateAccessTokenLong(data, expires_delta, cfg, utcnow) ==
    jwt_encode([sub |-> data.sub, exp |-> timegm(utcnow + expires_delta) + SecondsPerMinute],
               cfg.jwt_secret_key)

\* create_access_token: expires_delta is in ticks, 0 is a falsy timedelta

create_access_token(data, expires_delta, cfg, utcnow) ==
    LET expire == IF expires_delta # 0
                  THEN utcnow + expires_delta
                  ELSE utcnow + timedelta(cfg.jwt_access_token_expire_minutes)
    IN  jwt_encode([sub |-> data.sub, exp |-> timegm(expire)], cfg.jwt_secret_key)

-----------------------------------------------------------------------------
(* The users table of models/user.py, reached through the ORM classmethods *)

\* the Integer primary key compared with a value given as text
IntegerColumn(text) ==
    IF \E n \in 0..(MaxId + 2) : ToString(n) = text
    THEN Some(CHOOSE n \in 0..(MaxId + 2) : ToString(n) = text)
    ELSE None

\* User.list()
User_list(table) == table

\* User.read(user_id)
User_read(table, user_id) ==
    IF \E u \in table : u.id = user_id
    THEN Some(CHOOSE u \in table : u.id = user_id)
    ELSE None

\* email = Column(String(255), nullable=False, unique=True)
UniqueViolation(table, user_id, email) ==
    \E u \in table : u.id # user_id /\ u.email = email

\* the text of the store's integrity error (sqlite, duckdb)
IntegrityErrorTexts ==
    { <<"UNIQUE", "constraint", "failed", ":", "users.email">>,
      <<"Constraint", "Error", ":", "Duplicate", "key", "violates", "unique", "constraint">> }

\* User.create(name, email, password_hash), the row it inserts
User_create(table, id, name, email, password_hash) ==
    table \cup {[id |-> id, name |-> name, email |-> email,
                 password_hash |-> password_hash]}

\* an update that stores a new hash with the fields it is given
UserUpdateRehash(table, user_id, update_data) ==
    {IF u.id = user_id
     THEN [u EXCEPT !.name = IF update_data.name # None THEN update_data.name[1] ELSE @,
                    !.email = IF update_data.email # None THEN update_data.email[1] ELSE @,
                    !.password_hash = pwd_context_hash("pw2", "s1")]
     ELSE u : u \in table}

\* User.update(user_id, **update_data)
User_update(table, user_id, update_data) ==
    {IF u.id = user_id
     THEN [u EXCEPT !.name = IF update_data.name # None THEN update_data.name[1] ELSE @,
                    !.email = IF update_data.email # None THEN update_data.email[1] ELSE @]
     ELSE u : u \in table}

\* User.delete(user_id)
User_delete(table, user_id) == {u \in table : u.id # user_id}

-----------------------------------------------------------------------------
(* core/exceptions.py *)

HTTPException(status_code, detail) == [status_code |-> status_code, detail |-> detail]

credentials_exception ==
    HTTPException(HTTP_401_UNAUTHORIZED, <<"Could", "not", "validate", "credentials">>)

\* a response: status, detail and error_code of an error, the body of a success
Response(status, detail, error_code, user, access_token) ==
    [status |-> status, detail |-> detail, error_code |-> error_code,
     user |-> user, access_token |-> access_token]

\* an http_exception_handler with one error code for every 404
HttpExceptionHandlerUniform(exc) ==
    LET error_code ==
          IF exc.status_code = 404 THEN "RESOURCE_NOT_FOUND"
          ELSE IF exc.status_code = 401
          THEN IF Contains(<<"credentials">>, lower(exc.detail)) THEN "INVALID_CREDENTIALS"
               ELSE IF Contains(<<"email", "or", "password">>, lower(exc.detail)) THEN "LOGIN_FAILED"
               ELSE "AUTHENTICATION_FAILED"
          ELSE IF exc.status_code = 400
          THEN IF Contains(<<"No", "fields", "to", "update">>, exc.detail) THEN "EMPTY_UPDATE"
               ELSE IF Contains(<<"already", "registered">>, exc.detail) THEN "DUPLICATE_EMAIL"
               ELSE "BAD_REQUEST"
          ELSE "HTTP_" \o ToString(exc.status_code)
    IN  Response(exc.status_code, exc.detail, error_code, None, None)

http_exception_handler(exc) ==
    LET error_code ==
          IF exc.status_code = 404
          THEN IF Contains(<<"User">>, exc.detail) THEN "USER_NOT_FOUND"
               ELSE IF Contains(<<"Item">>, exc.detail) THEN "ITEM_NOT_FOUND"
               ELSE "RESOURCE_NOT_FOUND"
          ELSE IF exc.status_code = 401
          THEN IF Contains(<<"credentials">>, lower(exc.detail)) THEN "INVALID_CREDENTIALS"
               ELSE IF Contains(<<"email", "or", "password">>, lower(exc.detail)) THEN "LOGIN_FAILED"
               ELSE "AUTHENTICATION_FAILED"
          ELSE IF exc.status_code = 400
          THEN IF Contains(<<"No", "fields", "to", "update">>, exc.detail) THEN "EMPTY_UPDATE"
               ELSE IF Contains(<<"already", "registered">>, exc.detail) THEN "DUPLICATE_EMAIL"
               ELSE "BAD_REQUEST"
          ELSE "HTTP_" \o ToString(exc.status_code)
    IN  Response(exc.status_code, exc.detail, error_code, None, None)

general_exception_handler ==
    Response(500, <<"Internal", "server", "error">>, "INTERNAL_ERROR", None, None)

\* the plain-text traceback Starlette answers with under debug: it ends with the
\* text of the exception
debug_response(e) == Response(500, <<"Traceback">> \o e, "", None, None)

\* app = FastAPI(debug=settings.api_debug, ...): an exception no handler caught
\* reaches ServerErrorMiddleware, which answers with the traceback under debug
\* and calls the handler registered for Exception otherwise
ServerErrorMiddleware(e, cfg) ==
    IF cfg.api_debug THEN debug_response(e) ELSE general_exception_handler

\* validation_exception_handler: the answer to a body that fails its model
validation_exception_handler ==
    Response(422, <<"Validation", "failed">>, "VALIDATION_ERROR", None, None)

\* a representation that carries the stored hash
UserResponseLeaking(u) ==
    [id |-> u.id, email |-> u.email, name |-> u.name, password_hash |-> u.password_hash]

\* UserResponse(id, email, name)
UserResponse(u) == [id |-> u.id, email |-> u.email, name |-> u.name]

-----------------------------------------------------------------------------
(* routers/auth.py *)

\* get_current_user answering a token of a missing account with a 404 of its own
GetCurrentUserGhost(credentials, cfg, utcnow, table) ==
    LET decoded == jwt_decode(credentials, cfg.jwt_secret_key, utcnow)
        user_id == decoded.claims.sub
        key     == IF user_id = None THEN None ELSE IntegerColumn(user_id[1])
        user    == IF key = None THEN None ELSE User_read(table, key[1])
    IN  IF IsJWTError(decoded.raised)
        THEN [raised |-> Some(credentials_exception), user |-> None]
        ELSE IF user_id = None
        THEN [raised |-> Some(credentials_exception), user |-> None]
        ELSE IF user = None
        THEN [raised |-> Some(HTTPException(404, <<"User", "not", "found">>)), user |-> None]
        ELSE [raised |-> None, user |-> user]

\* get_current_user: [raised |-> the HTTPException or None, user |-> the row]
get_current_user(credentials, cfg, utcnow, table) ==
    LET decoded == jwt_decode(credentials, cfg.jwt_secret_key, utcnow)
        user_id == decoded.claims.sub
        key     == IF user_id = None THEN None ELSE IntegerColumn(user_id[1])
        user    == IF key = None THEN None ELSE User_read(table, key[1])
    IN  IF IsJWTError(decoded.raised)
        THEN [raised |-> Some(credentials_exception), user |-> None]
        ELSE IF user_id = None
        THEN [raised |-> Some(credentials_exception), user |-> None]
        ELSE IF user = None
        THEN [raised |-> Some(credentials_exception), user |-> None]
        ELSE [raised |-> None, user |-> user]

\* the record of the last request answered and of its response
Exchange(op, email, password, credentials, store_error, response) ==
    [op |-> op, email |-> email, password |-> password, credentials |-> credentials,
     store_error |-> store_error, response |-> response]

NoExchange ==
    Exchange("none", None, "", None, None, Response(0, <<>>, "", None, None))

\* the body of the UserRegister / UserCreate model built from a request
UserRegister(raw) ==
    [email |-> EmailStr(raw.email), name |-> raw.name, password |-> raw.password]

\* the body of the UserLogin model built from a request
UserLogin(raw) == [email |-> EmailStr(raw.email), password |-> raw.password]

\* rows that requests in flight may still insert
Reserved == Cardinality({q \in Procs : inflight[q] # None})

\* the comparison register_user makes between a stored and a submitted email
RegisterEmailMatch(stored, submitted) == lower(stored) = lower(submitted)

\* register_user up to `await User.create`: the scan of User.list() and the hash
RegisterScan(p, raw) ==
    LET user == UserRegister(raw)
        existing_users == User_list(users)
    IN  /\ inflight[p] = None
        /\ IF \E existing_user \in existing_users :
                  RegisterEmailMatch(existing_user.email, user.email)
           THEN /\ last' = Exchange("register", Some(user.email), "", None, None,
                      http_exception_handler(
                          HTTPException(HTTP_400_BAD_REQUEST, <<"Email", "already", "registered">>)))
                /\ UNCHANGED inflight
           ELSE /\ nextId + Reserved <= MaxId
                /\ \E salt \in Salts :
                      inflight' = [inflight EXCEPT ![p] =
                          Some([name |-> user.name, email |-> user.email,
                                password_hash |-> pwd_context_hash(user.password, salt)])]
                /\ UNCHANGED last
        /\ UNCHANGED <<boot, items, nextItemId, settings, users, nextId, now, held>>

\* the except clause of register_user without the fallback on the store's conflict
RegisterExceptNoFallback(e) ==
    HTTPException(HTTP_500_INTERNAL_SERVER_ERROR, <<"Registration", "failed">>)

\* the except clause of register_user, given str(e)
RegisterExcept(e) ==
    IF \/ Contains(<<"UNIQUE", "constraint", "failed">>, e)
       \/ Contains(<<"duplicate">>, lower(e))
    THEN HTTPException(HTTP_400_BAD_REQUEST, <<"Email", "already", "registered">>)
    ELSE HTTPException(HTTP_500_INTERNAL_SERVER_ERROR, <<"Registration", "failed">>)

\* register_user from `await User.create` to the response
RegisterCreate(p) ==
    /\ inflight[p] # None
    /\ LET user == inflight[p][1]
       IN  IF UniqueViolation(users, 0, user.email)
           THEN /\ \E e \in IntegrityErrorTexts :
                      last' = Exchange("register", Some(user.email), "", None, Some("IntegrityError"),
                                       http_exception_handler(RegisterExcept(e)))
                /\ UNCHANGED <<users, nextId>>
           ELSE LET new_user == [id |-> nextId, name |-> user.name, email |-> user.email,
                                 password_hash |-> user.password_hash]
                IN  /\ users' = User_create(users, nextId, user.name, user.email, user.password_hash)
                    /\ nextId' = nextId + 1
                    /\ last' = Exchange("register", Some(user.email), "", None, None,
                                        Response(200, <<>>, "", Some(UserResponse(new_user)), None))
    /\ inflight' = [inflight EXCEPT ![p] = None]
    /\ UNCHANGED <<boot, items, nextItemId, settings, now, held>>

\* the comparison login_user makes between a stored and a submitted email
LoginEmailMatch(stored, submitted) == stored = submitted

\* the exception of login_user telling an unknown email from a wrong password
LoginFailureTelling(db_user) ==
    IF db_user = None
    THEN HTTPException(404, <<"User", "not", "found">>)
    ELSE HTTPException(HTTP_401_UNAUTHORIZED, <<"Incorrect", "email", "or", "password">>)

\* the exception login_user raises when the lookup or the password check fails
LoginFailure(db_user) ==
    HTTPException(HTTP_401_UNAUTHORIZED, <<"Incorrect", "email", "or", "password">>)

\* a subject claim that is the same for every account
LoginSubjectConstant(db_user) == "1"

\* the subject claim login_user puts in the token
LoginSubject(db_user) == ToString(db_user.id)

\* login_user
LoginUser(raw) ==
    LET user == UserLogin(raw)
        found == {u \in User_list(users) : LoginEmailMatch(u.email, user.email)}
        db_user == IF found = {} THEN None ELSE Some(CHOOSE u \in found : TRUE)
    IN  /\ IF db_user # None /\ ~pwd_context_identify(db_user[1].password_hash)
           THEN /\ last' = Exchange("login", Some(user.email), user.password, None, None,
                                    ServerErrorMiddleware(UnknownHashError, settings))
                /\ UNCHANGED held
           ELSE IF db_user = None \/ ~pwd_context_verify(user.password, db_user[1].password_hash)
           THEN /\ last' = Exchange("login", Some(user.email), user.password, None, None,
                                    http_exception_handler(LoginFailure(db_user)))
                /\ UNCHANGED held
           ELSE LET access_token_expires == timedelta(settings.jwt_access_token_expire_minutes)
                    access_token == create_access_token([sub |-> Some(LoginSubject(db_user[1]))],
                                                        access_token_expires, settings, now)
                IN  /\ last' = Exchange("login", Some(user.email), user.password, None, None,
                                        Response(200, <<>>, "", None, Some(access_token)))
                    /\ held' = Some([token |-> access_token, account |-> db_user[1].id,
                                      iat |-> now, logged_out |-> FALSE])
        /\ UNCHANGED <<boot, items, nextItemId, settings, users, nextId, now, inflight>>

\* GET /auth/me: get_current_user, then get_current_user_profile
\* a get_current_user_profile that answers with the name the account was created with
MeAsCreated(credentials) ==
    LET auth == get_current_user(credentials, settings, now, users)
    IN  /\ last' = Exchange("me", None, "", Some(credentials), None,
                     IF auth.raised # None
                     THEN http_exception_handler(auth.raised[1])
                     ELSE Response(200, <<>>, "",
                                   Some([UserResponse(auth.user[1]) EXCEPT !.name = "n1"]), None))
        /\ UNCHANGED <<boot, items, nextItemId, settings, users, nextId, now, inflight, held>>

Me(credentials) ==
    LET auth == get_current_user(credentials, settings, now, users)
    IN  /\ last' = Exchange("me", None, "", Some(credentials), None,
                     IF auth.raised # None
                     THEN http_exception_handler(auth.raised[1])
                     ELSE Response(200, <<>>, "", Some(UserResponse(auth.user[1])), None))
        /\ UNCHANGED <<boot, items, nextItemId, settings, users, nextId, now, inflight, held>>

\* a logout that forgets the account of the caller
LogoutUserRevoking(credentials) ==
    LET auth == get_current_user(credentials, settings, now, users)
    IN  /\ boot.phase = "serving"
        /\ IF auth.raised # None
           THEN /\ last' = Exchange("logout", None, "", Some(credentials), None,
                                    http_exception_handler(auth.raised[1]))
                /\ UNCHANGED <<users, held>>
           ELSE /\ last' = Exchange("logout", None, "", Some(credentials), None,
                                    Response(200, <<"Successfully", "logged", "out">>, "", None, None))
                /\ users' = User_delete(users, auth.user[1].id)
                /\ held' = IF held # None /\ held[1].token = credentials
                           THEN Some([held[1] EXCEPT !.logged_out = TRUE])
                           ELSE held
        /\ UNCHANGED <<boot, items, nextItemId, settings, nextId, now, inflight>>

\* POST /auth/logout: get_current_user, then logout_user; the client notes
\* in `held` that it has logged out with its token
LogoutUser(credentials) ==
    LET auth == get_current_user(credentials, settings, now, users)
    IN  /\ boot.phase = "serving"
        /\ IF auth.raised # None
           THEN /\ last' = Exchange("logout", None, "", Some(credentials), None,
                                    http_exception_handler(auth.raised[1]))
                /\ UNCHANGED held
           ELSE /\ last' = Exchange("logout", None, "", Some(credentials), None,
                                    Response(200, <<"Successfully", "logged", "out">>, "", None, None))
                /\ held' = IF held # None /\ held[1].token = credentials
                           THEN Some([held[1] EXCEPT !.logged_out = TRUE])
                           ELSE held
        /\ UNCHANGED <<boot, items, nextItemId, settings, users, nextId, now, inflight>>

\* the endpoints that depend on get_current_user
ProtectedOps ==
    {"me", "logout",
     "get_users", "create_user", "get_user", "update_user", "delete_user",
     "get_items", "create_item", "get_item", "update_item", "delete_item"}

\* security = HTTPBearer(): with no Authorization header it raises
\* 'Not authenticated', with status 403 in FastAPI before 0.122 and 401 from
\* 0.122 on; the repository fixes no version
HTTPBearerErrors ==
    {HTTPException(403, <<"Not", "authenticated">>),
     HTTPException(HTTP_401_UNAUTHORIZED, <<"Not", "authenticated">>)}

\* a request to a protected endpoint without an Authorization header:
\* Depends(security) raises before get_current_user and the handler run
NoAuthorization(op) ==
    /\ boot.phase = "serving"
    /\ \E exc \in HTTPBearerErrors :
          last' = Exchange(op, None, "", None, None, http_exception_handler(exc))
    /\ UNCHANGED <<boot, items, nextItemId, settings, users, nextId, now, inflight, held>>

\* the texts of store failures that are no integrity errors
StoreErrorTexts ==
    { <<"unable", "to", "open", "database", "file">>,
      <<"database", "is", "locked">> }

\* register_user when `await User.list()` raises: the call is outside the try
RegisterListFails(raw, e) ==
    /\ boot.phase = "serving"
    /\ last' = Exchange("register", Some(UserRegister(raw).email), "", None, Some(e),
                        ServerErrorMiddleware(e, settings))
    /\ UNCHANGED <<boot, items, nextItemId, settings, users, nextId, now, inflight, held>>

\* register_user when `await User.create(...)` raises: except Exception as e
RegisterCreateFails(p, e) ==
    /\ inflight[p] # None
    /\ last' = Exchange("register", Some(inflight[p][1].email), "", None, Some(e),
                        http_exception_handler(RegisterExcept(e)))
    /\ inflight' = [inflight EXCEPT ![p] = None]
    /\ UNCHANGED <<boot, items, nextItemId, settings, users, nextId, now, held>>

\* login_user when `await User.list()` raises
LoginListFails(raw, e) ==
    /\ boot.phase = "serving"
    /\ last' = Exchange("login", Some(UserLogin(raw).email), raw.password, None, Some(e),
                        ServerErrorMiddleware(e, settings))
    /\ UNCHANGED <<boot, items, nextItemId, settings, users, nextId, now, inflight, held>>

\* get_current_user when `await User.read(user_id)` raises: the token decoded
\* and names a subject, and the call is outside the try
AuthReadFails(op, credentials, e) ==
    LET decoded == jwt_decode(credentials, settings.jwt_secret_key, now)
    IN  /\ boot.phase = "serving"
        /\ ~IsJWTError(decoded.raised)
        /\ decoded.claims.sub # None
        /\ last' = Exchange(op, None, "", Some(credentials), Some(e),
                            ServerErrorMiddleware(e, settings))
        /\ UNCHANGED <<boot, items, nextItemId, settings, users, nextId, now, inflight, held>>

\* the endpoints of the users and items routers: each awaits one call of User or Item
CrudOps ==
    {"get_users", "create_user", "get_user", "update_user", "delete_user",
     "get_items", "create_item", "get_item", "update_item", "delete_item"}

\* a handler of the users or items router when its call of User or Item raises,
\* the caller being authenticated
CrudCallFails(op, credentials, e) ==
    /\ boot.phase = "serving"
    /\ get_current_user(credentials, settings, now, users).raised = None
    /\ last' = Exchange(op, None, "", Some(credentials), Some(e),
                        ServerErrorMiddleware(e, settings))
    /\ UNCHANGED <<boot, items, nextItemId, settings, users, nextId, now, inflight, held>>

\* the passing of time
Tick ==
    /\ now < MaxClock
    /\ now' = now + 1
    /\ UNCHANGED <<boot, items, nextItemId, settings, users, nextId, inflight, held, last>>

-----------------------------------------------------------------------------
(* routers/users.py *)

\* the body of the UserUpdate model built from a request
UserUpdate(raw) ==
    [email |-> IF raw.email = None THEN None ELSE Some(EmailStr(raw.email[1])),
     name |-> raw.name]

\* create_user
CreateUser(credentials, raw) ==
    LET auth == get_current_user(credentials, settings, now, users)
        user == UserRegister(raw)
    IN  /\ IF auth.raised # None
           THEN /\ last' = Exchange("create_user", Some(user.email), "", None, None,
                                    http_exception_handler(auth.raised[1]))
                /\ UNCHANGED <<users, nextId>>
           ELSE IF UniqueViolation(users, 0, user.email)
           THEN /\ \E e \in IntegrityErrorTexts :
                      last' = Exchange("create_user", Some(user.email), "", None, Some("IntegrityError"),
                                       ServerErrorMiddleware(e, settings))
                /\ UNCHANGED <<users, nextId>>
           ELSE /\ nextId + Reserved <= MaxId
                /\ \E salt \in Salts :
                    LET new_user == [id |-> nextId, name |-> user.name, email |-> user.email,
                                     password_hash |-> pwd_context_hash(user.password, salt)]
                    IN  /\ users' = User_create(users, nextId, user.name, user.email,
                                                new_user.password_hash)
                        /\ last' = Exchange("create_user", Some(user.email), "", None, None,
                                            Response(201, <<>>, "", Some(UserResponse(new_user)), None))
                /\ nextId' = nextId + 1
        /\ UNCHANGED <<boot, items, nextItemId, settings, now, inflight, held>>

\* update_user
UpdateUser(credentials, user_id, raw) ==
    LET auth == get_current_user(credentials, settings, now, users)
        user_update == UserUpdate(raw)
        no_fields == user_update.email = None /\ user_update.name = None
        updated_user == User_read(User_update(users, user_id, user_update), user_id)
    IN  /\ IF auth.raised # None
           THEN /\ last' = Exchange("update_user", user_update.email, "", None, None,
                                    http_exception_handler(auth.raised[1]))
                /\ UNCHANGED users
           ELSE IF no_fields
           THEN /\ last' = Exchange("update_user", user_update.email, "", None, None,
                      http_exception_handler(
                          HTTPException(HTTP_400_BAD_REQUEST, <<"No", "fields", "to", "update">>)))
                /\ UNCHANGED users
           ELSE IF User_read(users, user_id) = None
           THEN /\ last' = Exchange("update_user", user_update.email, "", None, None,
                      http_exception_handler(HTTPException(404, <<"User", "not", "found">>)))
                /\ UNCHANGED users
           ELSE IF user_update.email # None /\ UniqueViolation(users, user_id, user_update.email[1])
           THEN /\ \E e \in IntegrityErrorTexts :
                      last' = Exchange("update_user", user_update.email, "", None, Some("IntegrityError"),
                                       ServerErrorMiddleware(e, settings))
                /\ UNCHANGED users
           ELSE /\ users' = User_update(users, user_id, user_update)
                /\ last' = Exchange("update_user", user_update.email, "", None, None,
                                    Response(200, <<>>, "", Some(UserResponse(updated_user[1])), None))
        /\ UNCHANGED <<boot, items, nextItemId, settings, nextId, now, inflight, held>>

\* delete_user
DeleteUser(credentials, user_id) ==
    LET auth == get_current_user(credentials, settings, now, users)
    IN  /\ IF auth.raised # None
           THEN /\ last' = Exchange("delete_user", None, "", None, None,
                                    http_exception_handler(auth.raised[1]))
                /\ UNCHANGED users
           ELSE IF User_read(users, user_id) = None
           THEN /\ last' = Exchange("delete_user", None, "", None, None,
                      http_exception_handler(HTTPException(404, <<"User", "not", "found">>)))
                /\ UNCHANGED users
           ELSE /\ users' = User_delete(users, user_id)
                /\ last' = Exchange("delete_user", None, "", None, None,
                                    Response(200, <<>>, "", None, None))
        /\ UNCHANGED <<boot, items, nextItemId, settings, nextId, now, inflight, held>>

\* [UserResponse(...) for user in users], in the order of the ids
UserResponses(table) ==
    LET ids == SelectSeq([i \in 1..(MaxId + 1) |-> i], LAMBDA i : \E u \in table : u.id = i)
    IN  [k \in DOMAIN ids |-> UserResponse(CHOOSE u \in table : u.id = ids[k])]

\* get_users: the body is the list of the representations
GetUsers(credentials) ==
    LET auth == get_current_user(credentials, settings, now, users)
    IN  /\ boot.phase = "serving"
        /\ last' = Exchange("get_users", None, "", Some(credentials), None,
                     IF auth.raised # None
                     THEN http_exception_handler(auth.raised[1])
                     ELSE Response(200, <<>>, "", UserResponses(User_list(users)), None))
        /\ UNCHANGED <<boot, items, nextItemId, settings, users, nextId, now, inflight, held>>

\* get_user
GetUser(credentials, user_id) ==
    LET auth == get_current_user(credentials, settings, now, users)
        user == User_read(users, user_id)
    IN  /\ boot.phase = "serving"
        /\ last' = Exchange("get_user", None, "", Some(credentials), None,
                     IF auth.raised # None
                     THEN http_exception_handler(auth.raised[1])
                     ELSE IF user = None
                     THEN http_exception_handler(HTTPException(404, <<"User", "not", "found">>))
                     ELSE Response(200, <<>>, "", Some(UserResponse(user[1])), None))
        /\ UNCHANGED <<boot, items, nextItemId, settings, users, nextId, now, inflight, held>>

-----------------------------------------------------------------------------
(* The items table of models/item.py and routers/items.py *)

\* Item.list()
Item_list(table) == table

\* Item.read(item_id)
Item_read(table, item_id) ==
    IF \E i \in table : i.id = item_id
    THEN Some(CHOOSE i \in table : i.id = item_id)
    ELSE None

\* Item.create(name, description), the row it inserts
Item_create(table, id, name, description) ==
    table \cup {[id |-> id, name |-> name, description |-> description]}

\* Item.update(item_id, **update_data)
\* an Item.update that writes every column of the body, provided or not
ItemUpdateReplacing(table, item_id, update_data) ==
    {IF i.id = item_id
     THEN [i EXCEPT !.name = IF update_data.name # None THEN update_data.name[1] ELSE @,
                    !.description = update_data.description]
     ELSE i : i \in table}

Item_update(table, item_id, update_data) ==
    {IF i.id = item_id
     THEN [i EXCEPT !.name = IF update_data.name # None THEN update_data.name[1] ELSE @,
                    !.description = IF update_data.description # None
                                    THEN update_data.description ELSE @]
     ELSE i : i \in table}

\* Item.delete(item_id)
Item_delete(table, item_id) == {i \in table : i.id # item_id}

\* ItemResponse(id, name, description)
ItemResponse(i) == [id |-> i.id, name |-> i.name, description |-> i.description]

\* a response whose body holds item representations
ItemsReply(status, body) ==
    [status |-> status, detail |-> <<>>, error_code |-> "", user |-> None,
     access_token |-> None, item |-> body]

\* [ItemResponse(...) for item in items], in the order of the ids
ItemResponses(table) ==
    LET ids == SelectSeq([k \in 1..(MaxItemId + 1) |-> k], LAMBDA k : \E i \in table : i.id = k)
    IN  [k \in DOMAIN ids |-> ItemResponse(CHOOSE i \in table : i.id = ids[k])]

\* the record of a PUT on an item: as Exchange, with the id and the body sent
ItemExchange(op, item_id, body, response) ==
    [op |-> op, email |-> None, password |-> "", credentials |-> None,
     store_error |-> None, response |-> response, item_id |-> item_id, body |-> body]

\* ItemBase.validate_description / ItemUpdate.validate_description
validate_description(v) ==
    IF v # None /\ Len(strip(v[1])) = 0
    THEN None
    ELSE IF v # None /\ v[1] # <<>> THEN Some(strip(v[1])) ELSE v

\* ItemCreate(**body): min_length=1 and validate_name raise on an empty or
\* blank name, the name is stripped
ItemCreate(raw) ==
    [valid |-> raw.name # <<>> /\ strip(raw.name) # <<>>,
     name |-> strip(raw.name),
     description |-> validate_description(raw.description)]

\* ItemUpdate without the conversion of a blank description to None
ItemUpdateKeepingBlank(raw) ==
    [valid |-> raw.name = None \/ (raw.name[1] # <<>> /\ strip(raw.name[1]) # <<>>),
     name |-> IF raw.name # None THEN Some(strip(raw.name[1])) ELSE None,
     description |-> IF raw.description # None THEN Some(strip(raw.description[1])) ELSE None]

\* ItemUpdate(**body): a given name must not be empty or blank and is stripped
ItemUpdate(raw) ==
    [valid |-> raw.name = None \/ (raw.name[1] # <<>> /\ strip(raw.name[1]) # <<>>),
     name |-> IF raw.name # None THEN Some(strip(raw.name[1])) ELSE None,
     description |-> validate_description(raw.description)]

\* get_items
GetItems(credentials) ==
    LET auth == get_current_user(credentials, settings, now, users)
    IN  /\ boot.phase = "serving"
        /\ last' = Exchange("get_items", None, "", Some(credentials), None,
                     IF auth.raised # None
                     THEN http_exception_handler(auth.raised[1])
                     ELSE ItemsReply(200, ItemResponses(Item_list(items))))
        /\ UNCHANGED <<boot, items, nextItemId, settings, users, nextId, now, inflight, held>>

\* create_item
CreateItem(credentials, raw) ==
    LET auth == get_current_user(credentials, settings, now, users)
        item == ItemCreate(raw)
        new_item == [id |-> nextItemId, name |-> item.name, description |-> item.description]
    IN  /\ boot.phase = "serving"
        /\ IF auth.raised # None
           THEN /\ last' = Exchange("create_item", None, "", Some(credentials), None,
                                    http_exception_handler(auth.raised[1]))
                /\ UNCHANGED <<items, nextItemId>>
           ELSE IF ~item.valid
           THEN /\ last' = Exchange("create_item", None, "", Some(credentials), None,
                                    validation_exception_handler)
                /\ UNCHANGED <<items, nextItemId>>
           ELSE /\ nextItemId <= MaxItemId
                /\ items' = Item_create(items, nextItemId, item.name, item.description)
                /\ nextItemId' = nextItemId + 1
                /\ last' = Exchange("create_item", None, "", Some(credentials), None,
                                    ItemsReply(201, Some(ItemResponse(new_item))))
        /\ UNCHANGED <<boot, settings, users, nextId, now, inflight, held>>

\* get_item
\* a get_item that removes the item it returns
GetItemConsuming(credentials, item_id) ==
    LET auth == get_current_user(credentials, settings, now, users)
        item == Item_read(items, item_id)
    IN  /\ boot.phase = "serving"
        /\ last' = Exchange("get_item", None, "", Some(credentials), None,
                     IF auth.raised # None
                     THEN http_exception_handler(auth.raised[1])
                     ELSE IF item = None
                     THEN http_exception_handler(HTTPException(404, <<"Item", "not", "found">>))
                     ELSE ItemsReply(200, Some(ItemResponse(item[1]))))
        /\ items' = IF auth.raised = None THEN Item_delete(items, item_id) ELSE items
        /\ UNCHANGED <<boot, nextItemId, settings, users, nextId, now, inflight, held>>

GetItem(credentials, item_id) ==
    LET auth == get_current_user(credentials, settings, now, users)
        item == Item_read(items, item_id)
    IN  /\ boot.phase = "serving"
        /\ last' = Exchange("get_item", None, "", Some(credentials), None,
                     IF auth.raised # None
                     THEN http_exception_handler(auth.raised[1])
                     ELSE IF item = None
                     THEN http_exception_handler(HTTPException(404, <<"Item", "not", "found">>))
                     ELSE ItemsReply(200, Some(ItemResponse(item[1]))))
        /\ UNCHANGED <<boot, items, nextItemId, settings, users, nextId, now, inflight, held>>

\* update_item
\* an update_item that looks the item up before it tests for an empty body
UpdateItemExistenceFirst(credentials, item_id, raw) ==
    LET auth == get_current_user(credentials, settings, now, users)
        item_update == ItemUpdate(raw)
        no_fields == item_update.name = None /\ item_update.description = None
        updated_item == Item_read(Item_update(items, item_id, item_update), item_id)
    IN  /\ boot.phase = "serving"
        /\ IF auth.raised # None
           THEN /\ last' = ItemExchange("update_item", item_id, raw,
                                    http_exception_handler(auth.raised[1]))
                /\ UNCHANGED items
           ELSE IF ~item_update.valid
           THEN /\ last' = ItemExchange("update_item", item_id, raw,
                                    validation_exception_handler)
                /\ UNCHANGED items
           ELSE IF updated_item = None
           THEN /\ last' = ItemExchange("update_item", item_id, raw,
                      http_exception_handler(HTTPException(404, <<"Item", "not", "found">>)))
                /\ UNCHANGED items
           ELSE IF no_fields
           THEN /\ last' = ItemExchange("update_item", item_id, raw,
                      http_exception_handler(
                          HTTPException(HTTP_400_BAD_REQUEST, <<"No", "fields", "to", "update">>)))
                /\ UNCHANGED items
           ELSE /\ items' = Item_update(items, item_id, item_update)
                /\ last' = ItemExchange("update_item", item_id, raw,
                                    ItemsReply(200, Some(ItemResponse(updated_item[1]))))
        /\ UNCHANGED <<boot, nextItemId, settings, users, nextId, now, inflight, held>>

UpdateItem(credentials, item_id, raw) ==
    LET auth == get_current_user(credentials, settings, now, users)
        item_update == ItemUpdate(raw)
        no_fields == item_update.name = None /\ item_update.description = None
        updated_item == Item_read(Item_update(items, item_id, item_update), item_id)
    IN  /\ boot.phase = "serving"
        /\ IF auth.raised # None
           THEN /\ last' = ItemExchange("update_item", item_id, raw,
                                    http_exception_handler(auth.raised[1]))
                /\ UNCHANGED items
           ELSE IF ~item_update.valid
           THEN /\ last' = ItemExchange("update_item", item_id, raw,
                                    validation_exception_handler)
                /\ UNCHANGED items
           ELSE IF no_fields
           THEN /\ last' = ItemExchange("update_item", item_id, raw,
                      http_exception_handler(
                          HTTPException(HTTP_400_BAD_REQUEST, <<"No", "fields", "to", "update">>)))
                /\ UNCHANGED items
           ELSE IF updated_item = None
           THEN /\ last' = ItemExchange("update_item", item_id, raw,
                      http_exception_handler(HTTPException(404, <<"Item", "not", "found">>)))
                /\ UNCHANGED items
           ELSE /\ items' = Item_update(items, item_id, item_update)
                /\ last' = ItemExchange("update_item", item_id, raw,
                                    ItemsReply(200, Some(ItemResponse(updated_item[1]))))
        /\ UNCHANGED <<boot, nextItemId, settings, users, nextId, now, inflight, held>>

\* delete_item
DeleteItem(credentials, item_id) ==
    LET auth == get_current_user(credentials, settings, now, users)
    IN  /\ boot.phase = "serving"
        /\ IF auth.raised # None
           THEN /\ last' = Exchange("delete_item", None, "", Some(credentials), None,
                                    http_exception_handler(auth.raised[1]))
                /\ UNCHANGED items
           ELSE IF Item_read(items, item_id) = None
           THEN /\ last' = Exchange("delete_item", None, "", Some(credentials), None,
                      http_exception_handler(HTTPException(404, <<"Item", "not", "found">>)))
                /\ UNCHANGED items
           ELSE /\ items' = Item_delete(items, item_id)
                /\ last' = Exchange("delete_item", None, "", Some(credentials), None,
                                    Response(200, <<>>, "", None, None))
        /\ UNCHANGED <<boot, nextItemId, settings, users, nextId, now, inflight, held>>

-----------------------------------------------------------------------------
(* main.py *)

\* GET /health
Health ==
    /\ boot.phase = "serving"
    /\ last' = Exchange("health", None, "", None, None, Response(200, <<"healthy">>, "", None, None))
    /\ UNCHANGED <<boot, items, nextItemId, settings, users, nextId, now, inflight, held>>

-----------------------------------------------------------------------------
(* Requests *)

RegisterRequests == [email : RawEmails, name : {"n1"}, password : {"pw1"}]
LoginRequests == [email : RawEmails, password : Passwords]
UpdateRequests ==
    [email : {None} \cup {Some(<<l, "@", "x">>) : l \in Locals}, name : {None, Some("n2")}]
UserIds == 1..MaxId

\* the one account of the token-lifetime scenario
Alice == [email |-> <<"a", "@", "x">>, name |-> "n1", password |-> "pw1"]

\* the second account, created through POST /users
Bob == [email |-> <<"b", "@", "x">>, name |-> "n1", password |-> "pw2"]

\* the requests of the scenario over every endpoint
ApiLoginRequests ==
    {[email |-> Alice.email, password |-> Alice.password],
     [email |-> Alice.email, password |-> Bob.password],
     [email |-> Bob.email, password |-> Bob.password]}
ApiUpdateRequests == [email : {None}, name : {None, Some("n2")}]
UsersUpdateRequests ==
    [email : {None, Some(<<"c", "@", "x">>)}, name : {None, Some("n2")}]
ItemCreateRequests == [name : {<<"i1">>}, description : {None, Some(<<"d1">>)}]
ItemUpdateRequests == [name : {None, Some(<<"i2">>)}, description : {None}]
ItemIds == 1..MaxItemId

\* the requests of the scenario of reads, updates and deletes: names and
\* descriptions with blanks around them, blank and empty ones
CrudItemCreateRequests ==
    [name : {<<" ", "i1">>, <<" ">>}, description : {Some(<<"d1">>)}]
CrudItemUpdateRequests ==
    [name : {None, Some(<<"i2">>)}, description : {None, Some(<<"d2", " ">>)}]
BlankItemCreateRequests ==
    [name : {<<" ", "i1">>, <<"i3", " ">>},
     description : {None, Some(<<"d1">>), Some(<<" ">>)}]
BlankItemUpdateRequests ==
    [name : {None, Some(<<"i2">>)},
     description : {None, Some(<<"d2", " ">>), Some(<<" ">>), Some(<<>>)}]

\* the ids no account of the scenario of reads, updates and deletes is stored under
AbsentUserIds == UserIds \ {1}

\* the token a client holds from its last login
HeldTokens == {held[i].token : i \in DOMAIN held}

\* the tokens of that scenario: a string that is no token and the held one
ApiCredentials == {GarbageToken} \cup HeldTokens

\* tokens a client can present besides the one its login returned
KnownTokens ==
    {GarbageToken} \cup
    {jwt_encode([sub |-> sub, exp |-> exp], key) :
        sub \in {None, Some("1")},
        exp \in {0, timegm(BootTime)}, key \in Keys}

-----------------------------------------------------------------------------
(* The service *)

\* the configuration of a service that serves: test mode, a signing key of its
\* own (any other key is foreign to it), and debug off, so that an unhandled
\* error reaches general_exception_handler
SettingsValues ==
    [environment : {"test"},
     jwt_secret_key : {"signing-key-of-the-service"},
     jwt_access_token_expire_minutes : {1},
     api_debug : {FALSE},
     cors_allow_origins : {<<"http://", "localhost", ":3000">>},
     database_url : {"sqlite:///andamios_dev.db"}]

\* the service after its startup, with empty tables
Init ==
    /\ boot = Boot("serving", {})
    /\ settings \in SettingsValues
    /\ users = {}
    /\ nextId = 1
    /\ items = {}
    /\ nextItemId = 1
    /\ now = BootTime
    /\ inflight = [p \in Procs |-> None]
    /\ held = None
    /\ last = NoExchange

\* the API, one request at a time in register_user
Next ==
    \/ \E raw \in RegisterRequests : RegisterScan("c1", raw)
    \/ RegisterCreate("c1")
    \/ \E raw \in LoginRequests : LoginUser(raw)
    \/ \E credentials \in KnownTokens \cup HeldTokens : Me(credentials)
    \/ \E credentials \in {GarbageToken} \cup HeldTokens, raw \in RegisterRequests :
          CreateUser(credentials, raw)
    \/ \E credentials \in {GarbageToken} \cup HeldTokens, user_id \in UserIds, raw \in UpdateRequests :
          UpdateUser(credentials, user_id, raw)
    \/ \E credentials \in {GarbageToken} \cup HeldTokens, user_id \in UserIds :
          DeleteUser(credentials, user_id)

Spec == Init /\ [][Next]_vars

\* concurrent registrations
NextRace ==
    \/ \E p \in Procs, raw \in RegisterRequests : RegisterScan(p, raw)
    \/ \E p \in Procs : RegisterCreate(p)

SpecRace == Init /\ [][NextRace]_vars

\* the lifetime of a token
NextToken ==
    \/ RegisterScan("c1", Alice)
    \/ RegisterCreate("c1")
    \/ LoginUser([email |-> Alice.email, password |-> Alice.password])
    \/ \E credentials \in {GarbageToken} \cup HeldTokens : Me(credentials)
    \/ \E credentials \in {GarbageToken} \cup HeldTokens : LogoutUser(credentials)
    \/ Tick

SpecToken == Init /\ [][NextToken]_vars

\* the startup of the process under every configuration
InitConfig ==
    /\ boot = Boot("import", {})
    /\ settings \in Settings
    /\ users = {}
    /\ nextId = 1
    /\ items = {}
    /\ nextItemId = 1
    /\ now = BootTime
    /\ inflight = [p \in Procs |-> None]
    /\ held = None
    /\ last = NoExchange

NextConfig ==
    \/ ImportConfig
    \/ Lifespan
    \/ Health

SpecConfig == InitConfig /\ [][NextConfig]_vars

\* every protected endpoint, with a token, with a wrong one and with no header
NextApi ==
    \/ RegisterScan("c1", Alice)
    \/ RegisterCreate("c1")
    \/ \E raw \in ApiLoginRequests : LoginUser(raw)
    \/ \E credentials \in ApiCredentials : Me(credentials)
    \/ \E credentials \in ApiCredentials : LogoutUser(credentials)
    \/ \E credentials \in ApiCredentials : GetUsers(credentials)
    \/ \E credentials \in ApiCredentials : CreateUser(credentials, Bob)
    \/ \E credentials \in ApiCredentials, user_id \in UserIds : GetUser(credentials, user_id)
    \/ \E credentials \in ApiCredentials, user_id \in UserIds, raw \in ApiUpdateRequests :
          UpdateUser(credentials, user_id, raw)
    \/ \E credentials \in ApiCredentials, user_id \in UserIds : DeleteUser(credentials, user_id)
    \/ \E credentials \in ApiCredentials : GetItems(credentials)
    \/ \E credentials \in ApiCredentials, raw \in ItemCreateRequests :
          CreateItem(credentials, raw)
    \/ \E credentials \in ApiCredentials, item_id \in ItemIds : GetItem(credentials, item_id)
    \/ \E credentials \in ApiCredentials, item_id \in ItemIds, raw \in ItemUpdateRequests :
          UpdateItem(credentials, item_id, raw)
    \/ \E credentials \in ApiCredentials, item_id \in ItemIds : DeleteItem(credentials, item_id)
    \/ \E op \in ProtectedOps : NoAuthorization(op)

SpecApi == Init /\ [][NextApi]_vars

\* the endpoints that answer with accounts or write the accounts table
NextUsers ==
    \/ RegisterScan("c1", Alice)
    \/ RegisterCreate("c1")
    \/ \E raw \in ApiLoginRequests : LoginUser(raw)
    \/ \E credentials \in ApiCredentials : Me(credentials)
    \/ \E credentials \in ApiCredentials : GetUsers(credentials)
    \/ \E credentials \in ApiCredentials : CreateUser(credentials, Bob)
    \/ \E credentials \in ApiCredentials, user_id \in UserIds : GetUser(credentials, user_id)
    \/ \E credentials \in ApiCredentials, user_id \in UserIds, raw \in UsersUpdateRequests :
          UpdateUser(credentials, user_id, raw)
    \/ \E credentials \in ApiCredentials, user_id \in UserIds : DeleteUser(credentials, user_id)

SpecUsers == Init /\ [][NextUsers]_vars

\* reads, updates and deletes of accounts and items by an authenticated caller
NextCrud ==
    \/ RegisterScan("c1", Alice)
    \/ RegisterCreate("c1")
    \/ LoginUser([email |-> Alice.email, password |-> Alice.password])
    \/ \E credentials \in HeldTokens, user_id \in UserIds : GetUser(credentials, user_id)
    \/ \E credentials \in HeldTokens, user_id \in UserIds, raw \in UsersUpdateRequests :
          UpdateUser(credentials, user_id, raw)
    \/ \E credentials \in HeldTokens, user_id \in AbsentUserIds :
          DeleteUser(credentials, user_id)
    \/ \E credentials \in HeldTokens, raw \in CrudItemCreateRequests :
          CreateItem(credentials, raw)
    \/ \E credentials \in HeldTokens, item_id \in ItemIds : GetItem(credentials, item_id)
    \/ \E credentials \in HeldTokens, item_id \in ItemIds, raw \in CrudItemUpdateRequests :
          UpdateItem(credentials, item_id, raw)
    \/ \E credentials \in HeldTokens, item_id \in ItemIds : DeleteItem(credentials, item_id)

SpecCrud == Init /\ [][NextCrud]_vars

\* item updates whose descriptions are blank, empty, padded or left out
NextItems ==
    \/ RegisterScan("c1", Alice)
    \/ RegisterCreate("c1")
    \/ LoginUser([email |-> Alice.email, password |-> Alice.password])
    \/ \E credentials \in HeldTokens, raw \in BlankItemCreateRequests :
          CreateItem(credentials, raw)
    \/ \E credentials \in HeldTokens, item_id \in ItemIds, raw \in BlankItemUpdateRequests :
          UpdateItem(credentials, item_id, raw)
    \/ \E credentials \in HeldTokens : GetItems(credentials)
    \/ \E credentials \in HeldTokens, item_id \in ItemIds : GetItem(credentials, item_id)
    \/ \E credentials \in HeldTokens, item_id \in ItemIds : DeleteItem(credentials, item_id)

SpecItems == Init /\ [][NextItems]_vars

\* a service in test mode with debug as configured: on (the default) or off
InitFaults ==
    /\ boot = Boot("serving", {})
    /\ settings \in {[cfg EXCEPT !.api_debug = d] : cfg \in SettingsValues, d \in BOOLEAN}
    /\ users = {}
    /\ nextId = 1
    /\ items = {}
    /\ nextItemId = 1
    /\ now = BootTime
    /\ inflight = [p \in Procs |-> None]
    /\ held = None
    /\ last = NoExchange

\* requests during which the store fails, next to requests it serves
NextFaults ==
    \/ RegisterScan("c1", Alice)
    \/ RegisterCreate("c1")
    \/ LoginUser([email |-> Alice.email, password |-> Alice.password])
    \/ \E credentials \in HeldTokens : Me(credentials)
    \/ \E credentials \in HeldTokens : LogoutUser(credentials)
    \/ \E e \in StoreErrorTexts : RegisterListFails(Alice, e)
    \/ \E e \in StoreErrorTexts : RegisterCreateFails("c1", e)
    \/ \E e \in StoreErrorTexts :
          LoginListFails([email |-> Alice.email, password |-> Alice.password], e)
    \/ \E op \in CrudOps, credentials \in HeldTokens, e \in StoreErrorTexts :
          CrudCallFails(op, credentials, e)
    \/ \E op \in ProtectedOps, credentials \in HeldTokens, e \in StoreErrorTexts :
          AuthReadFails(op, credentials, e)

SpecFaults == InitFaults /\ [][NextFaults]_vars

\* a service whose store holds one account already, with a hash written by
\* pwd_context.hash or with a string that is no hash
InitHash ==
    /\ boot = Boot("serving", {})
    /\ settings \in {[cfg EXCEPT !.api_debug = d] : cfg \in SettingsValues, d \in BOOLEAN}
    /\ \E h \in PasswordHashes \cup {MalformedHash} :
           users = {[id |-> 1, name |-> Alice.name, email |-> Alice.email, password_hash |-> h]}
    /\ nextId = 2
    /\ items = {}
    /\ nextItemId = 1
    /\ now = BootTime
    /\ inflight = [p \in Procs |-> None]
    /\ held = None
    /\ last = NoExchange

\* logins with that account, and what a login gives access to
NextHash ==
    \/ \E raw \in ApiLoginRequests : LoginUser(raw)
    \/ \E credentials \in ApiCredentials : Me(credentials)
    \/ \E credentials \in ApiCredentials : LogoutUser(credentials)
    \/ \E credentials \in ApiCredentials, user_id \in UserIds, raw \in UsersUpdateRequests :
          UpdateUser(credentials, user_id, raw)

SpecHash == InitHash /\ [][NextHash]_vars

\* every kind of request: the ones that write, the ones that read, and the ones
\* that are refused
NextFrame ==
    \/ RegisterScan("c1", Alice)
    \/ RegisterCreate("c1")
    \/ \E raw \in ApiLoginRequests : LoginUser(raw)
    \/ \E credentials \in ApiCredentials : Me(credentials)
    \/ \E credentials \in ApiCredentials : LogoutUser(credentials)
    \/ \E credentials \in ApiCredentials : GetUsers(credentials)
    \/ \E credentials \in ApiCredentials, user_id \in UserIds : GetUser(credentials, user_id)
    \/ \E credentials \in ApiCredentials, user_id \in UserIds, raw \in ApiUpdateRequests :
          UpdateUser(credentials, user_id, raw)
    \/ \E credentials \in ApiCredentials, user_id \in UserIds : DeleteUser(credentials, user_id)
    \/ \E credentials \in ApiCredentials : GetItems(credentials)
    \/ \E credentials \in ApiCredentials, raw \in CrudItemCreateRequests :
          CreateItem(credentials, raw)
    \/ \E credentials \in ApiCredentials, item_id \in ItemIds : GetItem(credentials, item_id)
    \/ \E credentials \in ApiCredentials, item_id \in ItemIds, raw \in CrudItemUpdateRequests :
          UpdateItem(credentials, item_id, raw)
    \/ \E credentials \in ApiCredentials, item_id \in ItemIds : DeleteItem(credentials, item_id)

SpecFrame == Init /\ [][NextFrame]_vars

-----------------------------------------------------------------------------
(* Claims *)

\* the answer to a duplicate email
DuplicateEmailResponse ==
    Response(400, <<"Email", "already", "registered">>, "DUPLICATE_EMAIL", None, None)

\* the answer to a token that get_current_user does not accept
CredentialsResponse ==
    Response(401, <<"Could", "not", "validate", "credentials">>, "INVALID_CREDENTIALS", None, None)

\* the answer to a failed login
LoginFailedResponse ==
    Response(401, <<"Incorrect", "email", "or", "password">>, "LOGIN_FAILED", None, None)

\* the stored accounts whose email case-folds to that of `email`
SameFolded(table, email) == {u \in table : lower(u.email) = lower(email)}

\* C1: in every reachable state no two stored accounts have emails that are
\* equal after lower-casing.
C1_FoldedEmailsUnique ==
    \A u \in users, v \in users : lower(u.email) = lower(v.email) => u.id = v.id

\* C2: a registration whose email case-folds to that of a stored account is
\* answered 400 'Email already registered' / DUPLICATE_EMAIL, the store is
\* unchanged and holds exactly one account for that case-folded email.
C2_DuplicateRegistrationRejected ==
    [][\A raw \in RegisterRequests :
          (RegisterScan("c1", raw) /\ SameFolded(users, EmailStr(raw.email)) # {})
          => /\ last'.response = DuplicateEmailResponse
             /\ users' = users
             /\ Cardinality(SameFolded(users', EmailStr(raw.email))) = 1]_vars

\* C3: a login with any case variation of a stored account's email and the
\* account's password succeeds and returns a token.
C3_LoginCaseInsensitive ==
    [][\A raw \in LoginRequests :
          (/\ LoginUser(raw)
           /\ \E u \in users : /\ lower(u.email) = lower(EmailStr(raw.email))
                               /\ pwd_context_verify(raw.password, u.password_hash))
          => /\ last'.response.status = 200
             /\ last'.response.access_token # None]_vars

\* C4: of two concurrent registrations with the same email at most one creates
\* an account, and the one that meets the store's conflict is answered
\* 400 'Email already registered' / DUPLICATE_EMAIL, with the store unchanged.
C4_RaceLoserGetsDuplicateEmail ==
    /\ [][\A p \in Procs :
            (RegisterCreate(p) /\ UniqueViolation(users, 0, inflight[p][1].email))
            => /\ last'.response = DuplicateEmailResponse
               /\ users' = users]_vars
    /\ [](\A u \in users, v \in users : u.email = v.email => u.id = v.id)

\* a registration met the store's conflict and was answered as a duplicate email
C4_Witness ==
    /\ last.op = "register"
    /\ last.store_error # None
    /\ last.response.status = 400
    /\ \E u \in users : Some(u.email) = last.email

\* a step of GET /auth/me that presents `credentials`
MeStep(credentials) ==
    /\ last'.op = "me"
    /\ last'.credentials = Some(credentials)
    /\ Me(credentials)

\* a step of POST /auth/login that submits `raw`
LoginStep(raw) ==
    /\ last'.op = "login"
    /\ last'.email = Some(EmailStr(raw.email))
    /\ last'.password = raw.password
    /\ LoginUser(raw)

\* the checks of the verifier a token can fail
Malformed(token) == ~token.wellformed
WrongKey(token) ==
    token.wellformed /\ token.signature # Signature(token.claims, settings.jwt_secret_key)
Expired(token) == token.claims.exp < timegm(now)
NoSubject(token) == token.claims.sub = None

\* the account a token names is stored
NamesStoredAccount(token) ==
    \E u \in users : token.claims.sub = Some(ToString(u.id))

\* C5: a token signed with a wrong key, an expired token, a malformed token and
\* a token without a subject are all answered with one and the same response,
\* 401 'Could not validate credentials'.
C5_OneVerificationFailure ==
    [][\A credentials \in KnownTokens \cup HeldTokens :
          (/\ MeStep(credentials)
           /\ \/ Malformed(credentials)
              \/ WrongKey(credentials)
              \/ Expired(credentials)
              \/ NoSubject(credentials))
          => last'.response = CredentialsResponse]_vars

\* a token that fails the expiry check alone was answered with that response
C5_Witness ==
    /\ last.op = "me"
    /\ last.credentials # None
    /\ LET token == last.credentials[1]
       IN  /\ Expired(token)
           /\ ~Malformed(token) /\ ~WrongKey(token) /\ ~NoSubject(token)
           /\ NamesStoredAccount(token)
    /\ last.response = CredentialsResponse

\* the account the held token was issued for is no longer stored
HeldAccountDeleted ==
    /\ held # None
    /\ \A u \in users : u.id # held[1].account

\* a step of a protected endpoint that presents `credentials`
PresentsStep(credentials) ==
    \/ last'.op = "me" /\ Me(credentials)
    \/ last'.op = "create_user" /\ \E raw \in RegisterRequests : CreateUser(credentials, raw)
    \/ last'.op = "update_user" /\ \E user_id \in UserIds, raw \in UpdateRequests :
                                       UpdateUser(credentials, user_id, raw)
    \/ last'.op = "delete_user" /\ \E user_id \in UserIds : DeleteUser(credentials, user_id)

C7_OneLoginFailure ==
    [][\A raw \in LoginRequests :
          (/\ LoginStep(raw)
           /\ \/ \A u \in users : u.email # EmailStr(raw.email)
              \/ \E u \in users : /\ u.email = EmailStr(raw.email)
                                  /\ ~pwd_context_verify(raw.password, u.password_hash))
          => /\ last'.response = LoginFailedResponse
             /\ held' = held]_vars

\* a login with a stored email and a wrong password was answered as a failed login
C7_Witness ==
    /\ last.op = "login"
    /\ \E u \in users : /\ Some(u.email) = last.email
                        /\ ~pwd_context_verify(last.password, u.password_hash)
    /\ last.response = LoginFailedResponse

\* the configured lifetime of a token, in ticks
Lifetime == settings.jwt_access_token_expire_minutes * SecondsPerMinute * TicksPerSecond

\* C8: a token issued at t with a TTL of m minutes is accepted at
\* t + m*60 - 1 seconds and rejected at t + m*60 + 1 seconds.
C8_TokenLifetime ==
    [][\A credentials \in HeldTokens :
          (MeStep(credentials) /\ ~HeldAccountDeleted)
          => /\ now = held[1].iat + Lifetime - TicksPerSecond
                  => last'.response.status = 200
             /\ now = held[1].iat + Lifetime + TicksPerSecond
                  => last'.response = CredentialsResponse]_vars

\* the held token was presented one second after its lifetime and rejected
C8_Witness ==
    /\ held # None
    /\ now = held[1].iat + Lifetime + TicksPerSecond
    /\ last.op = "me"
    /\ last.credentials = Some(held[1].token)
    /\ last.response = CredentialsResponse

\* C9: a token signed with a key other than the configured one is rejected.
C9_ForeignKeyRejected ==
    [][\A credentials \in KnownTokens \cup HeldTokens :
          (/\ MeStep(credentials)
           /\ \E key \in Keys : /\ key # settings.jwt_secret_key
                                /\ credentials.wellformed
                                /\ credentials.signature = Signature(credentials.claims, key))
          => last'.response = CredentialsResponse]_vars

\* a token that fails the signature check alone was rejected
C9_Witness ==
    /\ last.op = "me"
    /\ last.credentials # None
    /\ LET token == last.credentials[1]
       IN  /\ WrongKey(token)
           /\ ~Malformed(token) /\ ~Expired(token) /\ ~NoSubject(token)
           /\ NamesStoredAccount(token)
    /\ last.response = CredentialsResponse

\* C10: registration returns the identity of the account it stores, and the
\* token of a successful login with an account's credentials resolves through
\* GET /auth/me to the account of that identity while the token is unexpired
\* and the account is stored.
C10_TokenResolvesToAccount ==
    /\ [][(users' # users /\ RegisterCreate("c1"))
            => \E u \in users' \ users :
                  /\ last'.response.user = Some(UserResponse(u))
                  /\ \A v \in users : v.id # u.id]_vars
    /\ [][\A credentials \in HeldTokens :
            (MeStep(credentials) /\ ~Expired(credentials) /\ ~HeldAccountDeleted)
            => \E u \in users :
                  /\ u.id = held[1].account
                  /\ last'.response.status = 200
                  /\ last'.response.user = Some(UserResponse(u))]_vars

\* the token of the second account resolved to the second account
C10_Witness ==
    /\ held # None
    /\ held[1].account = 2
    /\ last.op = "me"
    /\ last.credentials = Some(held[1].token)
    /\ last.response.status = 200
    /\ last.response.user # None
    /\ last.response.user[1].id = 2
    /\ \E u \in users : u.id = 1

\* a step of a protected endpoint of either router that presents `credentials`
ProtectedStep(credentials) ==
    \/ PresentsStep(credentials)
    \/ last'.op = "logout" /\ LogoutUser(credentials)
    \/ last'.op = "get_users" /\ GetUsers(credentials)
    \/ last'.op = "get_user" /\ \E user_id \in UserIds : GetUser(credentials, user_id)
    \/ last'.op = "get_items" /\ GetItems(credentials)
    \/ last'.op = "create_item" /\ \E raw \in ItemCreateRequests : CreateItem(credentials, raw)
    \/ last'.op = "get_item" /\ \E item_id \in ItemIds : GetItem(credentials, item_id)
    \/ last'.op = "update_item" /\ \E item_id \in ItemIds, raw \in ItemUpdateRequests :
                                      UpdateItem(credentials, item_id, raw)
    \/ last'.op = "delete_item" /\ \E item_id \in ItemIds : DeleteItem(credentials, item_id)

\* get_current_user does not accept `credentials`
Rejected(credentials) ==
    get_current_user(credentials, settings, now, users).raised # None

\* C11: a request to a protected endpoint (users and items CRUD, /auth/me,
\* /auth/logout) that carries no bearer token or an invalid one is answered
\* 401 and leaves the accounts and the items unchanged.
C11_NoOperationWithoutToken ==
    [][/\ \A op \in ProtectedOps :
             NoAuthorization(op)
             => /\ last'.response.status = 401
                /\ users' = users /\ items' = items
       /\ \A credentials \in ApiCredentials :
             (Rejected(credentials) /\ ProtectedStep(credentials))
             => /\ last'.response.status = 401
                /\ users' = users /\ items' = items]_vars

\* C12: in production mode with a placeholder signing key the configuration
\* load fails with an error and the application never serves a request.
C12_PlaceholderKeyFailsInProduction ==
    (/\ settings.environment = "production"
     /\ settings.jwt_secret_key \in {"dev-secret-key-change-in-production",
                                     "your-production-secret-key-here"})
    => /\ boot.phase \in {"import", "failed"}
       /\ boot.phase = "failed" => boot.errors # {}
       /\ last = NoExchange

\* the load failed in production on the placeholder key alone
C12_Witness ==
    /\ settings.environment = "production"
    /\ settings.jwt_secret_key = "your-production-secret-key-here"
    /\ ~settings.api_debug
    /\ ~Contains(<<"localhost">>, settings.cors_allow_origins)
    /\ settings.database_url # ""
    /\ boot.phase = "failed"
    /\ boot.errors # {}

\* C13: in every environment mode a signing key that is empty or shorter than
\* 16 characters makes the configuration validation fail with an error, and
\* the application never serves a request.
C13_ShortKeyFailsEverywhere ==
    (settings.jwt_secret_key = "" \/ Len(settings.jwt_secret_key) < 16)
    => /\ boot.phase \in {"import", "failed"}
       /\ boot.phase = "failed" => boot.errors # {}
       /\ last = NoExchange

\* the validation failed in development on a key of 15 characters alone
C13_Witness ==
    /\ settings.environment = "development"
    /\ settings.jwt_secret_key = "fifteen-chars-k"
    /\ settings.database_url # ""
    /\ boot.phase = "failed"
    /\ boot.errors = {"JWT_SECRET_KEY must be at least 16 characters long"}

\* C14: outside development mode a configuration whose signing key is the
\* documented default is rejected at startup.
C14_DefaultKeyRejectedOutsideDevelopment ==
    (/\ settings.environment # "development"
     /\ settings.jwt_secret_key = "dev-secret-key-change-in-production")
    => boot.phase \in {"import", "failed"}

\* a step of POST /auth/logout that presents `credentials`
LogoutStep(credentials) ==
    /\ last'.op = "logout"
    /\ last'.credentials = Some(credentials)
    /\ LogoutUser(credentials)

\* C15: logout changes neither the accounts nor the configuration nor the
\* token the client holds, and the token used to log out is accepted on
\* every later request until it expires.
C15_LogoutIsAcknowledgment ==
    /\ [][\A credentials \in {GarbageToken} \cup HeldTokens :
            LogoutStep(credentials)
            => /\ users' = users /\ nextId' = nextId /\ settings' = settings
               /\ HeldTokens' = HeldTokens
               /\ ~Rejected(credentials)
                    => /\ last'.response.status = 200
                       /\ get_current_user(credentials, settings', now', users').raised = None]_vars
    /\ [][\A credentials \in HeldTokens :
            (/\ MeStep(credentials)
             /\ held[1].logged_out
             /\ ~Expired(credentials)
             /\ ~HeldAccountDeleted)
            => /\ last'.response.status = 200
               /\ last'.response.user # None]_vars

\* after a logout and some time the token was presented again and accepted
C15_Witness ==
    /\ held # None
    /\ held[1].logged_out
    /\ now > held[1].iat + TicksPerSecond
    /\ last.op = "me"
    /\ last.credentials = Some(held[1].token)
    /\ last.response.status = 200

\* C16: no operation changes the stored password_hash of an account; an
\* update changes at most its name and its email.
C16_PasswordHashImmutable ==
    [][\A u \in users, v \in users' :
          u.id = v.id => v.password_hash = u.password_hash]_vars

\* an account with a hash of its own was updated next to another account
C16_Witness ==
    /\ last.op = "update_user"
    /\ last.response.status = 200
    /\ \E u \in users, v \in users :
          /\ u.password_hash # v.password_hash
          /\ u.name = "n2"
          /\ u.email = <<"c", "@", "x">>

\* C17: POST /users by an authenticated caller with an email that is already
\* stored is answered 400 'Email already registered' / DUPLICATE_EMAIL and no
\* second account is stored.
C17_CreateUserDuplicateEmail ==
    [][\A credentials \in HeldTokens, raw \in RegisterRequests :
          (/\ last'.op = "create_user"
           /\ ~Rejected(credentials)
           /\ \E u \in users : u.email = EmailStr(raw.email)
           /\ CreateUser(credentials, raw))
          => /\ last'.response.status = 400
             /\ last'.response.error_code = "DUPLICATE_EMAIL"
             /\ Contains(<<"already", "registered">>, last'.response.detail)
             /\ users' = users]_vars

\* C18: a request to a protected endpoint without an Authorization header is
\* answered 401 with error_code AUTHENTICATION_FAILED.
C18_NoHeaderAuthenticationFailed ==
    [][\A op \in ProtectedOps :
          NoAuthorization(op)
          => /\ last'.response.status = 401
             /\ last'.response.error_code = "AUTHENTICATION_FAILED"]_vars

\* C19: a successful registration is answered 201 with the new identity, the
\* submitted name and the submitted email.
C19_RegistrationCreated ==
    [][(RegisterCreate("c1") /\ users' # users)
       => /\ last'.response.status = 201
          /\ last'.response.user =
               Some([id |-> nextId, email |-> inflight["c1"][1].email,
                     name |-> inflight["c1"][1].name])]_vars

\* the text of a response holds no submitted password
NoPasswordIn(text) == \A i \in DOMAIN text : text[i] \notin Passwords

C21_TokenPayload ==
    \A k \in DOMAIN last.response.access_token :
        LET claims == last.response.access_token[k].claims
        IN  /\ DOMAIN claims = {"sub", "iat", "exp"}
            /\ claims.sub # None
            /\ claims.exp = claims.iat
                            + settings.jwt_access_token_expire_minutes * SecondsPerMinute

\* ---- reads, updates and deletes by id ----

UserNotFoundResponse ==
    Response(404, <<"User", "not", "found">>, "USER_NOT_FOUND", None, None)
ItemNotFoundResponse ==
    Response(404, <<"Item", "not", "found">>, "ITEM_NOT_FOUND", None, None)
EmptyUpdateResponse ==
    Response(HTTP_400_BAD_REQUEST, <<"No", "fields", "to", "update">>, "EMPTY_UPDATE", None, None)

\* the fields of an item update that are left once the body is validated
Provided(raw) == ItemUpdate(raw).name # None \/ ItemUpdate(raw).description # None
BlankDescription(raw) == raw.description # None /\ strip(raw.description[1]) = <<>>

\* an authenticated read, update with a field, or delete of user_id whatever the store holds
UserByIdStep(credentials, user_id) ==
    \/ last'.op = "get_user" /\ GetUser(credentials, user_id)
    \/ last'.op = "delete_user" /\ DeleteUser(credentials, user_id)
    \/ last'.op = "update_user"
       /\ \E raw \in UsersUpdateRequests :
              (raw.email # None \/ raw.name # None) /\ UpdateUser(credentials, user_id, raw)

ItemByIdStep(credentials, item_id) ==
    \/ last'.op = "get_item" /\ GetItem(credentials, item_id)
    \/ last'.op = "delete_item" /\ DeleteItem(credentials, item_id)
    \/ last'.op = "update_item" /\ last'.item_id = item_id
       /\ ItemUpdate(last'.body).valid /\ Provided(last'.body)
       /\ UpdateItem(credentials, item_id, last'.body)

\* C22: an authenticated read, update with at least one field, or delete that names a user
\* id or an item id the store does not hold is answered 404 with USER_NOT_FOUND or
\* ITEM_NOT_FOUND, and both stores are left as they were
C22_MissingIdIs404 ==
    [][\A credentials \in HeldTokens :
          ~Rejected(credentials) =>
             /\ \A user_id \in UserIds :
                    (User_read(users, user_id) = None /\ UserByIdStep(credentials, user_id))
                    => (last'.response = UserNotFoundResponse /\ users' = users /\ items' = items)
             /\ \A item_id \in ItemIds :
                    (Item_read(items, item_id) = None /\ ItemByIdStep(credentials, item_id))
                    => (last'.response = ItemNotFoundResponse /\ users' = users /\ items' = items)]_vars

\* an update with a field of an item id that was deleted, by the account still stored
C22_Witness ==
    /\ last.op = "update_item"
    /\ last.response = ItemNotFoundResponse
    /\ Provided(last.body)
    /\ nextItemId > last.item_id
    /\ Item_read(items, last.item_id) = None
    /\ users # {}

C24_EmptyUpdate ==
    [][\A credentials \in HeldTokens :
          ~Rejected(credentials) =>
             /\ \A user_id \in UserIds :
                    (/\ last'.op = "update_user"
                     /\ UpdateUser(credentials, user_id, [email |-> None, name |-> None]))
                    => (last'.response = EmptyUpdateResponse /\ users' = users /\ items' = items)
             /\ (/\ last'.op = "update_item"
                 /\ last'.body = [name |-> None, description |-> None]
                 /\ UpdateItem(credentials, last'.item_id, last'.body))
                => (last'.response = EmptyUpdateResponse /\ users' = users /\ items' = items)]_vars

\* an empty update of an item id that is not stored
C24_Witness ==
    /\ last.op = "update_item"
    /\ last.response = EmptyUpdateResponse
    /\ last.body = [name |-> None, description |-> None]
    /\ Item_read(items, last.item_id) = None

\* C30: an authenticated item update whose description is empty or only whitespace has that
\* description turned into null and left out: when it is the only field the answer is 400
\* 'No fields to update', the stored description is never changed by it, and no update
\* turns a stored non-null description back into null
C30_BlankDescriptionIsNotProvided ==
    [][/\ \A credentials \in HeldTokens :
              (/\ last'.op = "update_item"
               /\ BlankDescription(last'.body)
               /\ ~Rejected(credentials)
               /\ UpdateItem(credentials, last'.item_id, last'.body))
              => /\ ItemUpdate(last'.body).description = None
                 /\ last'.body.name = None
                    => (last'.response = EmptyUpdateResponse /\ items' = items)
                 /\ \A i \in items : \E j \in items' :
                        j.id = i.id /\ j.description = i.description
       /\ last'.op = "update_item"
          => \A i \in items, j \in items' :
                 (j.id = i.id /\ i.description # None) => j.description # None]_vars

\* an item renamed by a body whose description is blank keeps the description it had
C30_Witness ==
    /\ last.op = "update_item"
    /\ last.response.status = 200
    /\ BlankDescription(last.body)
    /\ \E i \in items : /\ i.id = last.item_id
                        /\ i.name = <<"i2">>
                        /\ i.description = Some(<<"d1">>)

\* ---- the expiry instant ----

\* C26: the verifier accepts a token only while now is strictly before its expiry: a token
\* presented at exactly the expiry instant, or later, is rejected
C26_RejectedAtExpiry ==
    [][\A credentials \in HeldTokens :
          (MeStep(credentials) /\ now >= credentials.claims.exp * TicksPerSecond)
          => last'.response = CredentialsResponse]_vars

\* ---- the account a request sees ----

\* C27: the account of a request is read from the store when the request is made: GET
\* /auth/me answers with the name and email the account has at that moment, so an update
\* made after the token was issued shows in the next request with the same token
C27_MeIsCurrent ==
    [][\A credentials \in HeldTokens :
          (MeStep(credentials) /\ last'.response.status = 200)
          => /\ User_read(users, held[1].account) # None
             /\ last'.response.user = Some(UserResponse(User_read(users, held[1].account)[1]))]_vars

\* the held token was issued to a login with one of the registered emails and name, and
\* GET /auth/me with it answers with the email and name of a later update
C27_Witness ==
    /\ held # None
    /\ last.op = "me"
    /\ last.credentials = Some(held[1].token)
    /\ last.response.status = 200
    /\ last.response.user # None
    /\ last.response.user[1].email = <<"c", "@", "x">>
    /\ last.response.user[1].name = "n2"

\* ---- failures of the store ----

GenericDetails == { <<"Internal", "server", "error">>, <<"Registration", "failed">> }

\* C25: a failure of the store during any operation is answered 500 with a fixed generic
\* detail, and the answer shows no text of the store's exception
C25_StoreFailureIsOpaque ==
    (last.store_error # None /\ last.store_error[1] \in StoreErrorTexts)
    => /\ last.response.status = HTTP_500_INTERNAL_SERVER_ERROR
       /\ last.response.detail \in GenericDetails
       /\ ~Contains(last.store_error[1], last.response.detail)

\* ---- a stored hash that is no hash ----

\* C28: a login for an account whose stored hash is malformed is answered with the ordinary
\* 401 'Incorrect email or password', as for a wrong password
C28_MalformedHashIsLoginFailure ==
    [][\A raw \in ApiLoginRequests :
          (/\ LoginStep(raw)
           /\ \E u \in users : /\ LoginEmailMatch(u.email, UserLogin(raw).email)
                               /\ ~pwd_context_identify(u.password_hash))
          => last'.response = LoginFailedResponse]_vars

\* ---- what a request leaves alone ----

\* the operations that write when they succeed
WriteOps ==
    {"register", "create_user", "update_user", "delete_user",
     "create_item", "update_item", "delete_item"}

====
